---- MODULE Spec2Model ----
(***************************************************************************)
(* Interview session lifecycle and feedback derivation of NextStep:       *)
(* createInterviewSession, startInterviewWithQuestions,                   *)
(* generateFeedbackFromTranscript and handleInterviewComplete, over the   *)
(* interviewSession and callAnalytics tables.                             *)
(*                                                                         *)
(* A nullable column holds {} (null) or {v}.  A text whose length the     *)
(* code inspects is a sequence of one-character strings.                  *)
(***************************************************************************)
EXTENDS Integers, Sequences, FiniteSets, TLC

\* ------------------------------------------------------------------ bounds
\* Sessions that createInterviewSession may persist in one run.
MaxSessions == 1
\* handleInterviewComplete invocations in one run.
MaxCompletes == 2
\* handleInterviewComplete invocations in flight at once.
MaxOverlap == 1
\* Store operations that may throw in one run.
MaxFaults == 1

\* ------------------------------------------------------- program constants
\* formattedTranscript.trim().length < 10
MinTranscriptLen == 10
NoTranscriptScore == 50
ModelErrorScore == 60
ParseFallbackScore == 75
MissingCategoryScore == 50
DeriverFatalScore == 50
TimeoutScore == 50

\* ----------------------------------------------------------------- values
None == {}
Some(x) == {x}

Rep(c, n) == [i \in 1..n |-> c]

\* Clerk identities: "" is the absent identity ({ userId } = {} from auth()).
NoIdentity == ""
Identities == {NoIdentity, "clerk_a", "clerk_b", "clerk_x"}

\* db.user.findUnique({ where: { clerkUserId } }): the user table is never
\* written by this code; clerk_x is signed in but has no user row.
UserOf(clerkId) ==
    CASE clerkId = "clerk_a" -> Some("user_a")
      [] clerkId = "clerk_b" -> Some("user_b")
      [] OTHER -> None

UserIds == {"user_a", "user_b"}
Roles == {"Engineer"}

\* identities handleInterviewComplete is called under: absent, and one that
\* owns the session or not according to who created it
CompleteCallers == {NoIdentity, "clerk_a"}

\* every id that can exist and one that never does.
SessionIds == 1..(MaxSessions + 1)

FallbackQuestions(role) ==
    << "Tell me about yourself and your background.",
       "What interests you most about working as a " \o role \o "?",
       "What are your greatest strengths?",
       "Describe a challenging project you worked on.",
       "How do you handle working under pressure?",
       "Where do you see yourself in 5 years?",
       "Why should we hire you for this position?",
       "Do you have any questions for us?" >>

\* a null element of a parsed JSON array (no question text equals it)
JsonNull == "<null>"

\* an element of a parsed JSON array that is the object { question: "Why us?" }
ObjectQuestion == "{question: Why us?}"
ObjectQuestionText == "Why us?"

\* What model.generateContent(prompt) does for the question prompt: it throws,
\* or returns text that JSON.parse rejects, or text that parses to a value.
QuestionOutputs ==
    { [kind |-> "throw",   isArray |-> FALSE, value |-> <<>>],
      [kind |-> "invalid", isArray |-> FALSE, value |-> <<>>],
      [kind |-> "json",    isArray |-> FALSE, value |-> <<>>],
      [kind |-> "json",    isArray |-> TRUE,  value |-> <<"Question 1", "Question 2">>],
      [kind |-> "json",    isArray |-> TRUE,  value |-> <<"What is CI/CD?">>],
      [kind |-> "json",    isArray |-> TRUE,  value |-> <<JsonNull>>],
      [kind |-> "json",    isArray |-> TRUE,  value |-> <<"Question 1", ObjectQuestion>>] }

\* the outputs drawn where the session lifecycle is explored
LifecycleOutputs == {o \in QuestionOutputs : o.kind = "throw"}

\* generateInterviewQuestions: the parsed value, or the fallback list when the
\* call or JSON.parse throws.
generateInterviewQuestions(role, out) ==
    IF out.kind = "json"
      THEN [isArray |-> out.isArray, value |-> out.value]
      ELSE [isArray |-> TRUE, value |-> FallbackQuestions(role)]

\* result.questions of createInterviewSession: Array.isArray(q) ? q : [].
CreatedQuestions(role, out) ==
    LET q == generateInterviewQuestions(role, out)
    IN  IF q.isArray THEN q.value ELSE <<>>

\* Merge of a Prisma update's data into a row.
ApplyData(row, data) ==
    [f \in DOMAIN row |-> IF f \in DOMAIN data THEN data[f] ELSE row[f]]

Terminal == {"COMPLETED", "FAILED"}

\* ------------------------------------------------------------------- texts
IsSpace(c) == c \in {" ", "\n"}

RECURSIVE TrimStart(_)
TrimStart(t) == IF t # <<>> /\ IsSpace(Head(t)) THEN TrimStart(Tail(t)) ELSE t

RECURSIVE TrimEnd(_)
TrimEnd(t) ==
    IF t # <<>> /\ IsSpace(t[Len(t)]) THEN TrimEnd(SubSeq(t, 1, Len(t) - 1)) ELSE t

\* String.prototype.trim
Trim(t) == TrimEnd(TrimStart(t))

T_User == <<"U", "s", "e", "r">>
T_System == <<"S", "y", "s", "t", "e", "m">>
T_Sep == <<":", " ">>
T_NoTranscript == <<"N", "o", " ", "t", "r", "a", "n", "s", "c", "r", "i", "p", "t">>
T_NoTranscriptAvailable == T_NoTranscript \o <<" ", "a", "v", "a", "i", "l", "a", "b", "l", "e">>

\* a || b on strings: the empty string is falsy.
Or(a, b) == IF a # <<>> THEN a ELSE b

\* A message of the log: a plain string (isString) or an object whose content,
\* text, transcript, role and type may each be missing (<<>>).
Msg(isString, str, content, role, type) ==
    [isString |-> isString, str |-> str, content |-> content, text |-> <<>>,
     transcript |-> <<>>, role |-> role, type |-> type]

\* messages.filter(m => m && (m.content || m.text || m.transcript || typeof m === "string"))
MsgKept(m) ==
    IF m.isString THEN m.str # <<>>
    ELSE Or(m.content, Or(m.text, m.transcript)) # <<>>

\* the .map callback: "User: <m>" or "<role>: <content>"
MsgLine(m) ==
    IF m.isString THEN T_User \o T_Sep \o m.str
    ELSE LET content == Or(m.content, Or(m.text, m.transcript))
             role == Or(m.role, IF m.type = "transcript" THEN T_User ELSE Or(m.role, T_System))
         IN  role \o T_Sep \o content

RECURSIVE JoinLines(_)
JoinLines(ms) ==
    IF ms = <<>> THEN <<>>
    ELSE IF Len(ms) = 1 THEN MsgLine(ms[1])
    ELSE MsgLine(ms[1]) \o <<"\n">> \o JoinLines(Tail(ms))

\* formattedTranscript: the message log when it is non-empty, else the raw transcript.
FormattedTranscript(transcript, messages) ==
    IF messages # <<>> THEN JoinLines(SelectSeq(messages, MsgKept))
    ELSE transcript

\* !formattedTranscript || formattedTranscript.trim().length < 10
TooShort(ft) == ft = <<>> \/ Len(Trim(ft)) < MinTranscriptLen

LongText == Rep("a", MinTranscriptLen)
PaddedText == <<" ">> \o Rep("a", MinTranscriptLen - 1)
ContentMsg == Msg(FALSE, <<>>, Rep("b", MinTranscriptLen), <<>>, "transcript")
EmptyMsg == Msg(FALSE, <<>>, <<>>, <<"u">>, "other")

\* (transcript, messages) pairs handed to handleInterviewComplete.
CompleteInputs ==
    { <<<<>>, <<>>>>,
      <<LongText, <<>>>>,
      <<LongText, <<EmptyMsg>>>> }

\* ------------------------------------------------------- feedback documents
CategoryNames ==
    << "Communication Skills", "Technical Knowledge", "Problem Solving",
       "Cultural Fit", "Confidence and Clarity" >>

\* Five categories with one score and one comment.
UniformCategories(score, comment) ==
    [i \in 1..Len(CategoryNames) |->
        [name |-> CategoryNames[i], score |-> Some(score), comment |-> comment]]

Doc(total, cats, strengths, areas, assessment) ==
    [totalScore |-> total, categoryScores |-> cats, strengths |-> strengths,
     areasForImprovement |-> areas, finalAssessment |-> assessment]

\* the no-transcript document with the scores of the model-error one
NoTranscriptFeedbackAt60 ==
    Doc(Some(ModelErrorScore),
        Some(UniformCategories(ModelErrorScore, "No transcript provided")),
        Some(<<>>), Some(<<"Transcript not available">>), Some("No transcript"))

\* fallbackFeedback of the no-transcript branch
NoTranscriptFeedback ==
    Doc(Some(NoTranscriptScore),
        Some(UniformCategories(NoTranscriptScore, "No transcript provided")),
        Some(<<>>), Some(<<"Transcript not available">>),
        Some("No transcript was provided for analysis. Please provide the interview transcript to assess the candidate's performance."))

\* fallback of the model-error branch
ModelErrorFeedback ==
    Doc(Some(ModelErrorScore),
        Some(UniformCategories(ModelErrorScore,
             "Could not generate detailed feedback due to model error")),
        Some(<<>>), Some(<<"Feedback generation failed">>),
        Some("Feedback generation encountered an error. Please retry."))

\* categoryScores.find(c => c.name === name)?.score : {} when undefined
CategoryScore(doc, name) ==
    LET cats == IF doc.categoryScores = None THEN <<>>
                ELSE CHOOSE c \in doc.categoryScores : TRUE
        hits == SelectSeq(cats, LAMBDA c : c.name = name)
    IN  IF hits = <<>> THEN None ELSE hits[1].score

\* x ?? d
Coalesce(x, d) == IF x = None THEN d ELSE CHOOSE v \in x : TRUE

\* Math.round(x) || d on an integer or undefined x: NaN and 0 are falsy.
RoundOr(x, d) == IF x = None \/ x = Some(0) THEN d ELSE CHOOSE v \in x : TRUE

\* What model.generateContent(prompt) does for the feedback prompt: it throws,
\* or returns text.  A returned text is described by what the code reads from
\* it: whether JSON.parse accepts the cleaned text (doc is the parsed object),
\* the number matched by /(\d{1,3})\s*\/\s*100/ and by /(\b\d{1,3}\b)/, and the
\* cleaned text itself.
FeedbackOutputs ==
    { [kind |-> "throw", doc |-> None, hundred |-> None, bare |-> None,
       cleaned |-> ""],
      [kind |-> "json",
       doc |-> Some(Doc(Some(85),
                        Some(<< [name |-> "Communication Skills", score |-> Some(80), comment |-> "c"],
                                [name |-> "Technical Knowledge", score |-> Some(90), comment |-> "c"],
                                [name |-> "Problem Solving", score |-> Some(70), comment |-> "c"],
                                [name |-> "Cultural Fit", score |-> Some(65), comment |-> "c"],
                                [name |-> "Confidence and Clarity", score |-> Some(88), comment |-> "c"] >>),
                        Some(<<"Clear answers">>), Some(<<"More depth">>),
                        Some("Solid interview."))),
       hundred |-> None, bare |-> None, cleaned |-> "{...}"],
      [kind |-> "invalid", doc |-> None, hundred |-> None, bare |-> None,
       cleaned |-> "Sorry, I cannot help."] }

NoOutput == [kind |-> "none", doc |-> None, hundred |-> None, bare |-> None, cleaned |-> ""]

Clamp(n) == IF n < 0 THEN 0 ELSE IF n > 100 THEN 100 ELSE n

\* the catch (parseErr) branch: totalGuess and the synthesized document
ParseFallback(out) ==
    LET guess == IF out.hundred # None THEN out.hundred ELSE out.bare
    IN  Doc(IF guess = None THEN Some(ParseFallbackScore)
            ELSE Some(Clamp(CHOOSE v \in guess : TRUE)),
            Some(UniformCategories(ParseFallbackScore, "Auto-generated fallback")),
            Some(<<>>),
            Some(<<"Could not parse model JSON; using fallback values">>),
            IF out.cleaned = "" THEN None ELSE Some(out.cleaned))

\* "Ensure structure"
EnsureStructure(doc) ==
    LET total == IF doc.totalScore = None \/ doc.totalScore = Some(0)
                   THEN Some(ParseFallbackScore) ELSE doc.totalScore
    IN  Doc(total,
            IF doc.categoryScores = None \/ doc.categoryScores = Some(<<>>)
              THEN Some(UniformCategories(CHOOSE v \in total : TRUE, "Auto"))
              ELSE doc.categoryScores,
            IF doc.strengths = None THEN Some(<<>>) ELSE doc.strengths,
            IF doc.areasForImprovement = None THEN Some(<<>>) ELSE doc.areasForImprovement,
            doc.finalAssessment)

\* feedback after JSON.parse or its catch, and the structure repair
ParsedFeedback(out) ==
    EnsureStructure(IF out.kind = "json" THEN CHOOSE d \in out.doc : TRUE
                    ELSE ParseFallback(out))

\* ------------------------------------------------------ data of the writes
Now == Some("now")

\* data of db.interviewSession.create
NewSession(userId, role, questions) ==
    [userId |-> userId, role |-> role, status |-> "SCHEDULED",
     questions |-> questions, startedAt |-> None, endedAt |-> None,
     overallScore |-> None, technicalScore |-> None,
     communicationScore |-> None, confidenceScore |-> None,
     strengths |-> <<>>, weaknesses |-> <<>>, detailedFeedback |-> None]

\* the update of the catch of startInterviewWithQuestions without its status
StartFailedDataKeepingStatus == [endedAt |-> None]

\* startInterviewWithQuestions: data of the update, and of the update in its catch
StartData == [status |-> "IN_PROGRESS", startedAt |-> Now]
StartFailedData == [status |-> "FAILED"]

\* generateFeedbackFromTranscript: data of the update that flattens a document
\* built in the code (both fallbacks use ?? with the branch's own score)
FallbackData(doc, dflt) ==
    [overallScore |-> doc.totalScore,
     technicalScore |-> Some(Coalesce(CategoryScore(doc, "Technical Knowledge"), dflt)),
     communicationScore |-> Some(Coalesce(CategoryScore(doc, "Communication Skills"), dflt)),
     confidenceScore |-> Some(Coalesce(CategoryScore(doc, "Confidence and Clarity"), dflt)),
     strengths |-> Coalesce(doc.strengths, <<>>),
     weaknesses |-> Coalesce(doc.areasForImprovement, <<>>),
     detailedFeedback |-> doc.finalAssessment,
     status |-> "COMPLETED", endedAt |-> Now]

\* the model-error update with the no-transcript document in place of the
\* model-error one
ModelErrorDataOfNoTranscript == FallbackData(NoTranscriptFeedback, NoTranscriptScore)

NoTranscriptData == FallbackData(NoTranscriptFeedback, NoTranscriptScore)
ModelErrorData == FallbackData(ModelErrorFeedback, ModelErrorScore)

\* updateData without its status
UpdateDataKeepingStatus(feedback, cleaned) ==
    [overallScore |-> Some(RoundOr(feedback.totalScore, ParseFallbackScore)),
     detailedFeedback |-> Some("Feedback generated"), endedAt |-> Now]

\* updateData of the normal path
UpdateData(feedback, cleaned) ==
    [overallScore |-> Some(RoundOr(feedback.totalScore, ParseFallbackScore)),
     technicalScore |->
        Some(RoundOr(CategoryScore(feedback, "Technical Knowledge"), MissingCategoryScore)),
     communicationScore |->
        Some(RoundOr(CategoryScore(feedback, "Communication Skills"), MissingCategoryScore)),
     confidenceScore |->
        Some(RoundOr(CategoryScore(feedback, "Confidence and Clarity"), MissingCategoryScore)),
     strengths |-> Coalesce(feedback.strengths, <<>>),
     weaknesses |-> Coalesce(feedback.areasForImprovement, <<>>),
     detailedFeedback |->
        IF feedback.finalAssessment # None THEN feedback.finalAssessment
        ELSE IF cleaned # "" THEN Some(cleaned) ELSE Some("Feedback generated"),
     status |-> "COMPLETED", endedAt |-> Now]

\* data of the update in generateFeedbackFromTranscript's outer catch
DeriverFatalData ==
    [status |-> "COMPLETED", endedAt |-> Now,
     detailedFeedback |-> Some("Interview completed. Feedback generation encountered an issue."),
     overallScore |-> Some(DeriverFatalScore), strengths |-> <<>>,
     weaknesses |-> <<"Feedback generation failed">>]

\* the update of catch (feedbackErr) without its status
TimeoutDataKeepingStatus ==
    [endedAt |-> Now,
     detailedFeedback |->
        Some("Interview completed successfully. Feedback generation encountered an issue."),
     overallScore |-> Some(TimeoutScore)]

\* handleInterviewComplete: data of the update in catch (feedbackErr)
TimeoutData ==
    [status |-> "COMPLETED", endedAt |-> Now,
     detailedFeedback |->
        Some("Interview completed successfully. Feedback generation encountered an issue."),
     overallScore |-> Some(TimeoutScore)]

\* handleInterviewComplete: data of the update in the outer catch
CompleteFailedData ==
    [status |-> "FAILED", endedAt |-> Now,
     detailedFeedback |-> Some("Interview encountered an error during completion.")]

\* --------------------------------------------------------------- analytics
Metadata(messages, modelError, rawModelOutput) ==
    [messages |-> messages, modelError |-> modelError, rawModelOutput |-> rawModelOutput]

AnalyticsRow(userId, sid, transcript, startedAt, metadata) ==
    [userId |-> userId, sessionId |-> sid, transcript |-> transcript,
     startedAt |-> startedAt, endedAt |-> Now, metadata |-> metadata]

\* an upsert that creates a row whether or not one exists
UpsertAlwaysCreating(rows, sid, update, create) == rows \cup {create}

\* db.callAnalytics.upsert({ where: { sessionId }, update, create })
Upsert(rows, sid, update, create) ==
    IF \E r \in rows : r.sessionId = sid
      THEN { IF r.sessionId = sid THEN ApplyData(r, update) ELSE r : r \in rows }
      ELSE rows \cup {create}

\* db.callAnalytics.updateMany({ where: { sessionId }, data })
UpdateMany(rows, sid, data) ==
    { IF r.sessionId = sid THEN ApplyData(r, data) ELSE r : r \in rows }

\* ------------------------------------------------------------------- state
VARIABLES
    sessions,   \* the interviewSession table: row i has id i
    analytics,  \* the callAnalytics table
    calls,      \* the handleInterviewComplete invocations in flight
    last,       \* the last call of create / start and how it ended
    faults,     \* store operations that have thrown so far
    started,    \* handleInterviewComplete invocations so far
    prev,       \* the arguments of the invocation that returned last
    page        \* the InterviewSession component of the browser

vars == <<sessions, analytics, calls, last, faults, started, prev, page>>

\* the InterviewSession component before it is mounted
NoPage ==
    [ipc |-> "unmounted", sdk |-> "none", callStatus |-> "connecting",
     isCallActive |-> FALSE, messages |-> <<>>, transcript |-> <<>>,
     seen |-> None, sent |-> None, finish |-> "none", pressed |-> FALSE]

\* a server action settles with r for its caller; it does not touch the page
Tell(r) == last' = r /\ UNCHANGED page

IdleCall ==
    [hpc |-> "idle", gpc |-> "none", caller |-> NoIdentity, sid |-> 0,
     transcript |-> <<>>, messages |-> <<>>, before |-> None, out |-> NoOutput,
     gres |-> None, feedback |-> None, result |-> "", timedOut |-> FALSE,
     log |-> <<>>, failed |-> {}, meddled |-> FALSE, repeat |-> FALSE]

NoCall == [op |-> "none", caller |-> NoIdentity, sid |-> 0, error |-> "", generated |-> None, returned |-> None]

Init ==
    /\ sessions = <<>>
    /\ analytics = {}
    /\ calls = [i \in 1..MaxOverlap |-> IdleCall]
    /\ last = NoCall
    /\ faults = 0
    /\ started = 0
    /\ prev = None
    /\ page = NoPage

Exists(sid) == sid \in DOMAIN sessions

\* whether a store operation may throw now
Outcomes == IF faults < MaxFaults THEN {TRUE, FALSE} ELSE {TRUE}

InFlight(c) == c.hpc # "idle"

\* the invocations other than i that are in flight on session sid see it written
Meddle(cs, i, sid) ==
    [j \in DOMAIN cs |->
        IF j # i /\ InFlight(cs[j]) /\ cs[j].sid = sid
          THEN [cs[j] EXCEPT !.meddled = TRUE] ELSE cs[j]]

\* db.interviewSession.update({ where: { id: sid }, data })
Update(sid, data) == [sessions EXCEPT ![sid] = ApplyData(sessions[sid], data)]

\* ------------------------------------------------- createInterviewSession
Ended(op, caller, sid, error) ==
    [op |-> op, caller |-> caller, sid |-> sid, error |-> error, generated |-> None, returned |-> None]

\* createInterviewSession has called generateInterviewQuestions, whose model
\* call did `out`
Generated(ended, out) ==
    [ended EXCEPT !.generated = Some([kind |-> out.kind, isArray |-> out.isArray])]

\* no invocation of handleInterviewComplete is in flight
Quiet == \A i \in DOMAIN calls : calls[i].hpc = "idle"

\* A call that is rejected reads the identity, the user table and the owner of
\* a row, none of which a completion in flight changes, and writes nothing:
\* such calls are drawn between completions.
\* the error of the rejection when only the identity is looked at
CreateRejectionOfIdentity(caller) ==
    IF UserOf(caller) = None THEN "Unauthorized" ELSE ""

\* if (!userId) throw new Error("Unauthorized"); if (!user) throw new Error("User not found")
CreateRejection(caller) ==
    IF caller = NoIdentity THEN "Unauthorized"
    ELSE IF UserOf(caller) = None THEN "User not found"
    ELSE ""

Create(caller, role, out, ok) ==
    /\ UNCHANGED <<analytics, calls, started, prev>>
    /\ IF CreateRejection(caller) # ""
         THEN /\ Quiet
              /\ Tell(Ended("create", caller, 0, CreateRejection(caller)))
              /\ UNCHANGED <<sessions, faults>>
       ELSE /\ Len(sessions) < MaxSessions
            /\ IF ok
                 THEN /\ sessions' = Append(sessions,
                             NewSession(CHOOSE u \in UserOf(caller) : TRUE, role,
                                        CreatedQuestions(role, out)))
                      /\ Tell(Generated(Ended("create", caller, Len(sessions) + 1, ""), out))
                      /\ UNCHANGED faults
                 ELSE /\ Tell(Generated(Ended("create", caller, 0, "store"), out))
                      /\ faults' = faults + 1
                      /\ UNCHANGED sessions

\* -------------------------------------------- startInterviewWithQuestions
\* findFirst without userId in its where
FindFirstOfAnyUser(sid, userId) == Exists(sid)

\* db.interviewSession.findFirst({ where: { id: sessionId, userId: user.id } })
FindFirst(sid, userId) == Exists(sid) /\ sessions[sid].userId = userId

\* session.questions.map(q => typeof q === "string" ? q : (q.question || q.text || ""))
\* throws a TypeError on a null element
ExtractionThrows(questions) == \E k \in DOMAIN questions : questions[k] = JsonNull

\* the extraction with the object elements left as they are
ExtractQuestionAsIs(q) == q

\* typeof q === "string" ? q : (q.question || q.text || "")
ExtractQuestion(q) == IF q = ObjectQuestion THEN ObjectQuestionText ELSE q

\* session.questions.map(...)
ExtractQuestions(questions) == [k \in DOMAIN questions |-> ExtractQuestion(questions[k])]

\* `- ${q}`
Bullet(q) == "- " \o q

\* lines.join("\n")
RECURSIVE JoinText(_)
JoinText(lines) ==
    IF lines = <<>> THEN ""
    ELSE IF Len(lines) = 1 THEN lines[1]
    ELSE lines[1] \o "\n" \o JoinText(Tail(lines))

\* formattedQuestions, the part of the system instruction built from the questions
FormattedQuestions(questions) ==
    JoinText([k \in DOMAIN questions |-> Bullet(questions[k])])

\* return { session: updatedSession, assistantConfig, questions }
Started(caller, sid, persisted) ==
    [Ended("start", caller, sid, "") EXCEPT
        !.returned = Some([questions |-> ExtractQuestions(persisted),
                           instruction |-> FormattedQuestions(ExtractQuestions(persisted))])]

\* the catch: the update to FAILED (its own failure is logged and swallowed),
\* then throw error
StartCatch(caller, sid, error, okCatch, thrown) ==
    /\ Tell(Ended("start", caller, sid, error))
    /\ faults + thrown + (IF okCatch THEN 0 ELSE 1) <= MaxFaults
    /\ faults' = faults + thrown + (IF okCatch THEN 0 ELSE 1)
    /\ IF okCatch
         THEN /\ sessions' = Update(sid, StartFailedData)
              /\ calls' = Meddle(calls, 0, sid)
         ELSE UNCHANGED <<sessions, calls>>

Start(caller, sid, ok, okCatch) ==
    /\ UNCHANGED <<analytics, started, prev>>
    /\ IF caller = NoIdentity
         THEN /\ Quiet
              /\ Tell(Ended("start", caller, sid, "Unauthorized"))
              /\ UNCHANGED <<sessions, calls, faults>>
       ELSE IF UserOf(caller) = None
         THEN /\ Quiet
              /\ Tell(Ended("start", caller, sid, "User not found"))
              /\ UNCHANGED <<sessions, calls, faults>>
       ELSE IF ~FindFirst(sid, CHOOSE u \in UserOf(caller) : TRUE)
         THEN /\ Quiet
              /\ Tell(Ended("start", caller, sid, "Interview session not found"))
              /\ UNCHANGED <<sessions, calls, faults>>
       ELSE IF ExtractionThrows(sessions[sid].questions)
         THEN StartCatch(caller, sid, "TypeError", okCatch, 0)
       ELSE IF ok
         THEN /\ sessions' = Update(sid, StartData)
              /\ calls' = Meddle(calls, 0, sid)
              /\ Tell(Started(caller, sid, sessions[sid].questions))
              /\ UNCHANGED faults
       ELSE StartCatch(caller, sid, "store", okCatch, 1)

\* ------------------------------------------------ handleInterviewComplete
\* One invocation i is two control flows: the handler (hpc) and the deriver it
\* starts (gpc), which keeps running when the timeout wins the race.  Each
\* action is one await of the code: a store operation, the model call, or the
\* race settling.

\* invocation i applies `data` to its session and records the write in its log
Write(i, c, label, data) ==
    /\ sessions' = Update(c.sid, data)
    /\ calls' = Meddle([calls EXCEPT ![i] = [c EXCEPT !.log = Append(@, label)]], i, c.sid)

\* a store operation of invocation i throws
Throws(i, c, label) ==
    /\ faults < MaxFaults
    /\ faults' = faults + 1
    /\ calls' = [calls EXCEPT ![i] = [c EXCEPT !.failed = @ \cup {label}]]

Args(sid, transcript, messages) ==
    [sid |-> sid, transcript |-> transcript, messages |-> messages]

\* what the handler keeps of the row it found
Snapshot(row) ==
    [userId |-> row.userId, startedAt |-> row.startedAt, status |-> row.status,
     scored |-> row.overallScore # None]

\* a missing session that lets the call return normally
NotFoundIgnored(c) == [c EXCEPT !.hpc = "done", !.result = "ok"]

\* if (!session) throw new Error("Session not found"), caught by the outer catch
NotFound(c) == [c EXCEPT !.hpc = "fatal", !.result = "Session not found"]

\* the call, up to db.interviewSession.findUnique
CompleteCall(i, caller, sid, input, ok) ==
    /\ calls[i].hpc = "idle"
    /\ \A j \in 1..(i - 1) : calls[j].hpc # "idle"
    /\ started < MaxCompletes
    /\ started' = started + 1
    /\ Tell(NoCall)
    /\ UNCHANGED prev
    /\ UNCHANGED <<sessions, analytics>>
    /\ LET c == [IdleCall EXCEPT !.caller = caller, !.sid = sid,
                                 !.transcript = input[1], !.messages = input[2],
                                 !.repeat = (prev = Some(Args(sid, input[1], input[2])))]
       IN  IF ~ok
             THEN Throws(i, [c EXCEPT !.hpc = "fatal", !.result = "store"], "find")
           ELSE IF ~Exists(sid)
             THEN /\ calls' = [calls EXCEPT ![i] = NotFound(c)]
                  /\ UNCHANGED faults
           ELSE /\ calls' = [calls EXCEPT ![i] =
                        [c EXCEPT !.hpc = "upsert", !.before = Some(Snapshot(sessions[sid]))]]
                /\ UNCHANGED faults

\* an upsert failure that reaches the outer catch
UpsertFailedFatally(c) == [c EXCEPT !.hpc = "fatal", !.result = "store"]

\* catch (upsertErr): "Continue execution"
UpsertFailed(c) == [c EXCEPT !.hpc = "race", !.gpc = "begin"]

\* analyticsData and its upsert; then generateFeedbackFromTranscript is called
\* and the race begins
H_upsert(i, ok) ==
    LET c == calls[i]
        row == CHOOSE r \in c.before : TRUE
        n == [c EXCEPT !.hpc = "race", !.gpc = "begin"]
    IN  /\ c.hpc = "upsert"
        /\ Tell(NoCall) /\ UNCHANGED <<started, prev>>
        /\ UNCHANGED sessions
        /\ IF ok
             THEN /\ analytics' = Upsert(analytics, c.sid,
                        [transcript |-> Or(c.transcript, T_NoTranscriptAvailable),
                         endedAt |-> Now,
                         metadata |-> Metadata(Some(Len(c.messages)), None, None)],
                        AnalyticsRow(Some(row.userId), c.sid,
                                     Or(c.transcript, T_NoTranscriptAvailable),
                                     row.startedAt,
                                     Metadata(Some(Len(c.messages)), None, None)))
                  /\ calls' = [calls EXCEPT ![i] = n]
                  /\ UNCHANGED faults
             ELSE /\ Throws(i, UpsertFailed(c), "upsert")
                  /\ UNCHANGED analytics

\* Promise.race: the deriver has settled first
H_settle(i) ==
    LET c == calls[i]
    IN  /\ c.hpc = "race"
        /\ c.gpc = "done"
        /\ calls' = [calls EXCEPT ![i] = [c EXCEPT !.hpc = "reread", !.feedback = c.gres]]
        /\ Tell(NoCall) /\ UNCHANGED <<started, prev>>
        /\ UNCHANGED <<sessions, analytics, faults>>

\* Promise.race: the timer rejects while the deriver is still pending
H_timeout(i) ==
    LET c == calls[i]
    IN  /\ c.hpc = "race"
        /\ c.gpc # "done"
        /\ calls' = [calls EXCEPT ![i] = [c EXCEPT !.hpc = "timeoutWrite", !.timedOut = TRUE]]
        /\ Tell(NoCall) /\ UNCHANGED <<started, prev>>
        /\ UNCHANGED <<sessions, analytics, faults>>

\* catch (feedbackErr): the degraded completion
H_timeoutWrite(i, ok) ==
    LET c == calls[i]
        n == [c EXCEPT !.hpc = "reread"]
    IN  /\ c.hpc = "timeoutWrite"
        /\ Tell(NoCall) /\ UNCHANGED <<started, prev>>
        /\ UNCHANGED analytics
        /\ IF ok
             THEN Write(i, n, "timeout", TimeoutData) /\ UNCHANGED faults
             ELSE Throws(i, n, "timeoutWrite") /\ UNCHANGED sessions

\* the re-read and the return
H_reread(i, ok) ==
    LET c == calls[i]
    IN  /\ c.hpc = "reread"
        /\ Tell(NoCall) /\ UNCHANGED started
        /\ UNCHANGED <<sessions, analytics>>
        /\ IF ok
             THEN /\ calls' = [calls EXCEPT ![i] = [c EXCEPT !.hpc = "done", !.result = "ok"]]
                  /\ prev' = Some(Args(c.sid, c.transcript, c.messages))
                  /\ UNCHANGED faults
             ELSE /\ Throws(i, [c EXCEPT !.hpc = "fatal", !.result = "store"], "reread")
                  /\ UNCHANGED prev

\* the outer catch: set FAILED (an update of a missing row throws; either
\* failure is swallowed) and rethrow
H_fatal(i, ok) ==
    LET c == calls[i]
        n == [c EXCEPT !.hpc = "done"]
    IN  /\ c.hpc = "fatal"
        /\ Tell(NoCall) /\ UNCHANGED started
        /\ UNCHANGED analytics
        /\ prev' = Some(Args(c.sid, c.transcript, c.messages))
        /\ IF ~Exists(c.sid)
             THEN /\ ok
                  /\ calls' = [calls EXCEPT ![i] = n]
                  /\ UNCHANGED <<sessions, faults>>
           ELSE IF ok
             THEN Write(i, n, "failed", CompleteFailedData) /\ UNCHANGED faults
             ELSE Throws(i, n, "fatalWrite") /\ UNCHANGED sessions

\* the invocation is over: the handler has returned and no deriver is pending
Release(i) ==
    LET c == calls[i]
    IN  /\ c.hpc = "done"
        /\ c.gpc \in {"none", "done"}
        /\ calls' = [calls EXCEPT ![i] = IdleCall]
        /\ Tell(NoCall) /\ UNCHANGED <<started, prev>>
        /\ UNCHANGED <<sessions, analytics, faults>>

\* ------------------------------------------ generateFeedbackFromTranscript
\* a throw inside the deriver that leaves it as a rejection
Uncaught(c) == [c EXCEPT !.gpc = "rejected"]

\* a throw inside the deriver's try: control passes to its outer catch
Caught(c) == [c EXCEPT !.gpc = "fatal"]

\* findUnique, formattedTranscript and the first analytics upsert.  how is
\* "ok", "find" (findUnique throws) or "upsert" (the upsert throws, swallowed).
G_begin(i, how) ==
    LET c == calls[i]
        ft == FormattedTranscript(c.transcript, c.messages)
        next == IF TooShort(ft) THEN "short" ELSE "model"
    IN  /\ c.gpc = "begin"
        /\ Tell(NoCall) /\ UNCHANGED <<started, prev>>
        /\ UNCHANGED sessions
        /\ CASE how = "find" ->
                  /\ Throws(i, Caught(c), "g.find")
                  /\ UNCHANGED analytics
             [] how = "upsert" ->
                  /\ Exists(c.sid)
                  /\ Throws(i, [c EXCEPT !.gpc = next], "g.upsert")
                  /\ UNCHANGED analytics
             [] OTHER ->
                  /\ how = "ok"
                  /\ UNCHANGED faults
                  /\ IF ~Exists(c.sid)
                       THEN /\ calls' = [calls EXCEPT ![i] = [c EXCEPT !.gpc = "done", !.gres = None]]
                            /\ UNCHANGED analytics
                       ELSE /\ calls' = [calls EXCEPT ![i] = [c EXCEPT !.gpc = next]]
                            /\ analytics' = Upsert(analytics, c.sid,
                                  [transcript |-> Or(ft, T_NoTranscript), endedAt |-> Now],
                                  AnalyticsRow(Some(sessions[c.sid].userId), c.sid,
                                               Or(ft, T_NoTranscript), None,
                                               Metadata(None, None, None)))

\* the no-transcript branch: the fallback document is written and returned
G_short(i, ok) ==
    LET c == calls[i]
    IN  /\ c.gpc = "short"
        /\ Tell(NoCall) /\ UNCHANGED <<started, prev>>
        /\ UNCHANGED analytics
        /\ IF ok
             THEN /\ Write(i, [c EXCEPT !.gpc = "done", !.gres = Some(NoTranscriptFeedback)],
                           "short", NoTranscriptData)
                  /\ UNCHANGED faults
             ELSE Throws(i, Caught(c), "g.update") /\ UNCHANGED sessions

\* model.generateContent settles.  If it throws, the error is saved to the
\* analytics row (updateMany; its failure is swallowed).  If it returns, the
\* text is parsed and repaired and the session is updated.
G_model(i, out, ok) ==
    LET c == [calls[i] EXCEPT !.out = out]
    IN  /\ calls[i].gpc = "model"
        /\ Tell(NoCall) /\ UNCHANGED <<started, prev>>
        /\ IF out.kind = "throw"
             THEN /\ UNCHANGED sessions
                  /\ IF ok
                       THEN /\ analytics' = UpdateMany(analytics, c.sid,
                                  [metadata |-> Metadata(None, Some("modelError"), None)])
                            /\ calls' = [calls EXCEPT ![i] = [c EXCEPT !.gpc = "errWrite"]]
                            /\ UNCHANGED faults
                       ELSE /\ Throws(i, [c EXCEPT !.gpc = "errWrite"], "g.updateMany")
                            /\ UNCHANGED analytics
             ELSE /\ UNCHANGED analytics
                  /\ IF ok
                       THEN /\ Write(i, [c EXCEPT !.gpc = "raw"], "derived",
                                     UpdateData(ParsedFeedback(out), out.cleaned))
                            /\ UNCHANGED faults
                       ELSE Throws(i, Caught(c), "g.update") /\ UNCHANGED sessions

\* the model-error branch: the fallback document is written and returned
G_errWrite(i, ok) ==
    LET c == calls[i]
    IN  /\ c.gpc = "errWrite"
        /\ Tell(NoCall) /\ UNCHANGED <<started, prev>>
        /\ UNCHANGED analytics
        /\ IF ok
             THEN /\ Write(i, [c EXCEPT !.gpc = "done", !.gres = Some(ModelErrorFeedback)],
                           "modelError", ModelErrorData)
                  /\ UNCHANGED faults
             ELSE Throws(i, Caught(c), "g.update") /\ UNCHANGED sessions

\* the raw model output is saved (failure swallowed) and the document returned
G_raw(i, ok) ==
    LET c == calls[i]
        n == [c EXCEPT !.gpc = "done", !.gres = Some(ParsedFeedback(c.out))]
        ft == FormattedTranscript(c.transcript, c.messages)
        row == CHOOSE r \in c.before : TRUE
    IN  /\ c.gpc = "raw"
        /\ Tell(NoCall) /\ UNCHANGED <<started, prev>>
        /\ UNCHANGED sessions
        /\ IF ok
             THEN /\ analytics' = Upsert(analytics, c.sid,
                        [metadata |-> Metadata(None, None, Some(c.out.cleaned))],
                        AnalyticsRow(Some(row.userId), c.sid, ft, None,
                                     Metadata(None, None, Some(c.out.cleaned))))
                  /\ calls' = [calls EXCEPT ![i] = n]
                  /\ UNCHANGED faults
             ELSE Throws(i, n, "g.upsertRaw") /\ UNCHANGED analytics

\* the outer catch: best-effort update, then null is returned
G_fatal(i, ok) ==
    LET c == calls[i]
        n == [c EXCEPT !.gpc = "done", !.gres = None]
    IN  /\ c.gpc = "fatal"
        /\ Tell(NoCall) /\ UNCHANGED <<started, prev>>
        /\ UNCHANGED analytics
        /\ IF ok
             THEN Write(i, n, "deriverFatal", DeriverFatalData) /\ UNCHANGED faults
             ELSE Throws(i, n, "g.fatalUpdate") /\ UNCHANGED sessions

\* ----------------------------------------------------------- specification
Slots == 1..MaxOverlap

\* ids a caller can hold: those of the rows in the table (the database draws a
\* fresh id for each row it creates) and one that no row ever gets
OfferedIds == {sid \in SessionIds : Exists(sid) \/ sid = MaxSessions + 1}

Next ==
    \/ \E caller \in Identities, role \in Roles, out \in LifecycleOutputs, ok \in Outcomes :
          Create(caller, role, out, ok)
    \/ \E caller \in Identities, sid \in OfferedIds, ok \in Outcomes :
          \E okCatch \in Outcomes : Start(caller, sid, ok, okCatch)
    \/ \E i \in Slots, caller \in CompleteCallers, sid \in OfferedIds,
          input \in CompleteInputs, ok \in Outcomes :
          CompleteCall(i, caller, sid, input, ok)
    \/ \E i \in Slots, ok \in Outcomes : H_upsert(i, ok)
    \/ \E i \in Slots : H_settle(i)
    \/ \E i \in Slots : H_timeout(i)
    \/ \E i \in Slots, ok \in Outcomes : H_timeoutWrite(i, ok)
    \/ \E i \in Slots, ok \in Outcomes : H_reread(i, ok)
    \/ \E i \in Slots, ok \in Outcomes : H_fatal(i, ok)
    \/ \E i \in Slots : Release(i)
    \/ \E i \in Slots, how \in {"ok", "find", "upsert"} : G_begin(i, how)
    \/ \E i \in Slots, ok \in Outcomes : G_short(i, ok)
    \/ \E i \in Slots, out \in FeedbackOutputs, ok \in Outcomes : G_model(i, out, ok)
    \/ \E i \in Slots, ok \in Outcomes : G_errWrite(i, ok)
    \/ \E i \in Slots, ok \in Outcomes : G_raw(i, ok)
    \/ \E i \in Slots, ok \in Outcomes : G_fatal(i, ok)

Spec == Init /\ [][Next]_vars

\* The handler's steps are continuations the runtime schedules once their
\* await settles, and the timer of the race fires while the race is pending.
\* Nothing obliges the model call of the deriver to settle.
Handler(i) ==
    \/ \E ok \in Outcomes : H_upsert(i, ok)
    \/ H_settle(i)
    \/ H_timeout(i)
    \/ \E ok \in Outcomes : H_timeoutWrite(i, ok)
    \/ \E ok \in Outcomes : H_reread(i, ok)
    \/ \E ok \in Outcomes : H_fatal(i, ok)

FairSpec == Spec /\ \A i \in Slots : WF_vars(Handler(i))

\* ------------------------------------------------------------------ claims
\* The invocations a claim about one call of complete speaks of.
Returned(c) == c.hpc = "done"
\* no store operation of the invocation has thrown
Nominal(c) == c.failed = {}
\* no other call has written the invocation's session while it was in flight
Alone(c) == ~c.meddled
Row(c) == sessions[c.sid]
Scores(row) ==
    <<row.overallScore, row.technicalScore, row.communicationScore, row.confidenceScore>>
Owns(caller, sid) == Exists(sid) /\ UserOf(caller) = Some(sessions[sid].userId)

\* C1: the persisted status of a session only moves forward along
\* SCHEDULED -> IN_PROGRESS -> {COMPLETED, FAILED}; COMPLETED and FAILED are
\* never left, and COMPLETED is not entered from SCHEDULED.
Forward(a, b) ==
    \/ a = b
    \/ a = "SCHEDULED" /\ b \in {"IN_PROGRESS", "FAILED"}
    \/ a = "IN_PROGRESS" /\ b \in Terminal

C1_StatusOnlyForward ==
    [][\A sid \in DOMAIN sessions : Forward(sessions[sid].status, sessions'[sid].status)]_vars

\* C2: a step of a complete invocation whose caller is unauthenticated or does
\* not own the session changes no session row and no analytics row.
Stepped(i) == calls[i].hpc # calls'[i].hpc \/ calls[i].gpc # calls'[i].gpc

C2_CompleteOnlyByOwner ==
    [][\A i \in Slots :
          (Stepped(i) /\ calls'[i].hpc # "idle" /\ ~Owns(calls'[i].caller, calls'[i].sid))
             => (sessions' = sessions /\ analytics' = analytics)]_vars

\* C3 as stated: when complete returns from an invocation whose model call
\* had thrown (store operations succeeding, no other call writing the session),
\* the status is COMPLETED, detailedFeedback is set and the four scores are 60.
ModelErrorOutcome(row) ==
    /\ row.status = "COMPLETED"
    /\ row.detailedFeedback # None
    /\ Scores(row) = <<Some(60), Some(60), Some(60), Some(60)>>

C3_ModelThrowScores60 ==
    [][\A i \in Slots :
          LET c == calls[i]
              d == calls'[i]
          IN  (c.hpc = "reread" /\ d.hpc = "done" /\ c.out.kind = "throw"
               /\ Nominal(d) /\ Alone(d))
                 => ModelErrorOutcome(sessions'[d.sid])]_vars

\* C3 as amended: the same, for invocations in which the deriver settled
\* before the timer of the race fired.
C3_ModelThrowSettled ==
    \A i \in Slots :
        LET c == calls[i]
        IN  (Returned(c) /\ c.out.kind = "throw" /\ ~c.timedOut /\ Nominal(c) /\ Alone(c))
               => (c.result = "ok" /\ ModelErrorOutcome(Row(c)))

C3_Witness ==
    \E i \in Slots :
        LET c == calls[i]
        IN  /\ Returned(c) /\ c.out.kind = "throw" /\ ~c.timedOut
            /\ Nominal(c) /\ Alone(c) /\ c.result = "ok"
            /\ Len(c.transcript) >= MinTranscriptLen
            /\ c.before = Some([userId |-> Row(c).userId, startedAt |-> Now,
                                status |-> "IN_PROGRESS", scored |-> FALSE])

\* C4: complete always returns, and an invocation whose timer fired (its store
\* operations succeeding, no other call writing the session) has written
\* COMPLETED with the degraded detailedFeedback and overallScore 50: from the
\* timeout write on the status is COMPLETED and detailedFeedback and
\* overallScore are set, and they are the degraded ones until the abandoned
\* deriver writes.
AfterTimeoutWrite(c) == c.timedOut /\ c.hpc \in {"reread", "done"}

TimeoutOutcome(c) ==
    /\ Row(c).status = "COMPLETED"
    /\ Row(c).detailedFeedback # None
    /\ Row(c).overallScore # None
    /\ "timeout" \in {c.log[k] : k \in DOMAIN c.log}
    /\ c.log[Len(c.log)] = "timeout" =>
          /\ Row(c).overallScore = Some(50)
          /\ Row(c).detailedFeedback = TimeoutData.detailedFeedback

C4_Returns ==
    \A i \in Slots : (calls[i].hpc \notin {"idle", "done"}) ~> (calls[i].hpc = "done")

C4_TimeoutCompletes ==
    /\ [](\A i \in Slots :
            (AfterTimeoutWrite(calls[i]) /\ Nominal(calls[i]) /\ Alone(calls[i]))
               => TimeoutOutcome(calls[i]))
    /\ C4_Returns

\* the deriver hangs: complete has returned after the timeout write
C4_Witness ==
    \E i \in Slots :
        LET c == calls[i]
        IN  /\ Returned(c) /\ c.timedOut /\ c.gpc = "model" /\ c.result = "ok"
            /\ Nominal(c) /\ Alone(c)
            /\ c.log = <<"timeout">>
            /\ Row(c).status = "COMPLETED" /\ Row(c).overallScore = Some(50)

\* C5: once the timeout write of an invocation on a session without scores is
\* done (store operations succeeding, no other call writing the session), the
\* status is COMPLETED and the scores, strengths, weaknesses and
\* detailedFeedback are those of one write: of the timeout handler, or of the
\* deriver.
FeedbackFields ==
    {"overallScore", "technicalScore", "communicationScore", "confidenceScore",
     "strengths", "weaknesses", "detailedFeedback"}

Unscored ==
    [overallScore |-> None, technicalScore |-> None, communicationScore |-> None,
     confidenceScore |-> None, strengths |-> <<>>, weaknesses |-> <<>>,
     detailedFeedback |-> None]

CompleteWrites ==
    {TimeoutData, NoTranscriptData, ModelErrorData, DeriverFatalData}
       \cup {UpdateData(ParsedFeedback(o), o.cleaned) : o \in {x \in FeedbackOutputs : x.kind # "throw"}}

SingleDocument(row) ==
    \E data \in CompleteWrites :
        \A f \in FeedbackFields : row[f] = ApplyData(Unscored, data)[f]

C5_SingleDocument ==
    \A i \in Slots :
        LET c == calls[i]
        IN  (AfterTimeoutWrite(c) /\ Nominal(c) /\ Alone(c)
             /\ c.before # None /\ (\A b \in c.before : ~b.scored))
               => (Row(c).status = "COMPLETED" /\ SingleDocument(Row(c)))

\* C6: when complete returns for an existing session (no other call writing
\* it, and no store operation failing outside the deriver), the status is
\* terminal and the four scores are set.
DeriverFaults == {"g.find", "g.upsert", "g.update", "g.updateMany", "g.upsertRaw"}

C6_DegradedScoresSet ==
    \A i \in Slots :
        LET c == calls[i]
        IN  (Returned(c) /\ c.before # None /\ Alone(c) /\ c.failed \subseteq DeriverFaults)
               => /\ Row(c).status \in Terminal
                  /\ \A k \in 1..4 : Scores(Row(c))[k] # None

\* C7: in an invocation in which an analytics upsert threw and nothing else
\* did, the handler does not take its fatal path, the deriver is invoked, and
\* complete returns normally with the session COMPLETED (no other call
\* writing the session).
AnalyticsUpserts == {"upsert", "g.upsert"}

C7_UpsertFailureSwallowed ==
    \A i \in Slots :
        LET c == calls[i]
        IN  (c.failed # {} /\ c.failed \subseteq AnalyticsUpserts)
               => /\ c.hpc # "fatal"
                  /\ c.gpc # "none"
                  /\ Returned(c) => c.result = "ok"
                  /\ (Returned(c) /\ Alone(c)) => Row(c).status = "COMPLETED"

C7_Witness ==
    \E i \in Slots :
        LET c == calls[i]
        IN  /\ c.failed = {"upsert"} /\ Returned(c) /\ c.gpc = "done" /\ Alone(c)
            /\ c.result = "ok" /\ ~c.timedOut
            /\ Row(c).status = "COMPLETED"
            /\ \A b \in c.before : b.status = "IN_PROGRESS"

\* C8: a start by an authenticated user for a session id that does not exist
\* or belongs to another user ends with "Interview session not found" and
\* changes no stored row.
C8_StartNotFound ==
    [][(/\ last'.op = "start"
        /\ UserOf(last'.caller) # None
        /\ ~Owns(last'.caller, last'.sid))
          => /\ last'.error = "Interview session not found"
             /\ sessions' = sessions
             /\ analytics' = analytics]_vars

\* the session exists and belongs to another user
C8_Witness ==
    /\ last.op = "start"
    /\ last.error = "Interview session not found"
    /\ Exists(last.sid)
    /\ UserOf(last.caller) # None
    /\ ~Owns(last.caller, last.sid)

\* C9: a complete call that returns normally leaves the status COMPLETED, and
\* a call that repeats the arguments of the call that returned before it, on
\* the session that call left COMPLETED, keeps the status COMPLETED at every
\* step (store operations succeeding, no other call writing the session).
C9_CompleteTwice ==
    \A i \in Slots :
        LET c == calls[i]
        IN  (InFlight(c) /\ c.before # None /\ Nominal(c) /\ Alone(c))
               => /\ (Returned(c) /\ c.result = "ok") => Row(c).status = "COMPLETED"
                  /\ (c.repeat /\ \A b \in c.before : b.status = "COMPLETED")
                        => Row(c).status = "COMPLETED"

\* the second call has returned, having written the session again
C9_Witness ==
    \E i \in Slots :
        LET c == calls[i]
        IN  /\ c.repeat /\ Returned(c) /\ c.result = "ok" /\ c.gpc = "done"
            /\ Nominal(c) /\ Alone(c)
            /\ \A b \in c.before : b.status = "COMPLETED"
            /\ Len(c.log) >= 1
            /\ started = 2
            /\ Row(c).status = "COMPLETED"

\* C10: an invocation on an IN_PROGRESS session (store operations succeeding,
\* no other call writing the session) writes the status at most once, and
\* exactly once by the time the handler has returned and the deriver settled.
C10_TerminalWrittenOnce ==
    \A i \in Slots :
        LET c == calls[i]
        IN  (c.before # None /\ (\A b \in c.before : b.status = "IN_PROGRESS")
             /\ Nominal(c) /\ Alone(c))
               => /\ Len(c.log) <= 1
                  /\ (Returned(c) /\ c.gpc = "done") => Len(c.log) = 1

\* C11 as stated: when complete has returned for an existing session whose
\* formatted transcript is shorter than 10 characters after trimming (store
\* operations succeeding, no other call writing the session), the returned
\* feedback has five category scores of 50 with comment "No transcript
\* provided", the four persisted scores are 50, the status is COMPLETED and
\* the model has not been called.
ShortInput(c) == TooShort(FormattedTranscript(c.transcript, c.messages))

NoTranscriptOutcome(c) ==
    /\ c.feedback # None
    /\ \A fb \in c.feedback :
          /\ fb.categoryScores # None
          /\ \A cats \in fb.categoryScores :
                /\ Len(cats) = 5
                /\ \A k \in 1..5 : cats[k].score = Some(50)
                                   /\ cats[k].comment = "No transcript provided"
    /\ Scores(Row(c)) = <<Some(50), Some(50), Some(50), Some(50)>>
    /\ Row(c).status = "COMPLETED"
    /\ c.out = NoOutput

ShortCircuited(c) == c.gpc = "short" \/ \E k \in DOMAIN c.log : c.log[k] = "short"

C12_ShortCircuitOnlyIfBothShort ==
    \A i \in Slots :
        LET c == calls[i]
        IN  ShortCircuited(c)
               => /\ TooShort(JoinLines(SelectSeq(c.messages, MsgKept)))
                  /\ TooShort(c.transcript)

\* -------------------------------------------------- scoring of a document
\* The deriver on documents the model may return: handleInterviewComplete is
\* followed from a session that has been created and started, the model
\* returning a parseable document whose numbers are drawn from ScoreValues.
ScoreValues == {-1, 0, 40, 100, 101}

ScoredDoc(t, tech, comm) ==
    Doc(Some(t),
        Some(<< [name |-> "Communication Skills", score |-> Some(comm), comment |-> "c"],
                [name |-> "Technical Knowledge", score |-> Some(tech), comment |-> "c"],
                [name |-> "Problem Solving", score |-> Some(70), comment |-> "c"],
                [name |-> "Cultural Fit", score |-> Some(65), comment |-> "c"],
                [name |-> "Confidence and Clarity", score |-> Some(88), comment |-> "c"] >>),
        Some(<<"Clear answers">>), Some(<<"More depth">>), Some("Solid interview."))

ScoredOutputs ==
    { [kind |-> "json", doc |-> Some(ScoredDoc(t, tech, comm)),
       hundred |-> None, bare |-> None, cleaned |-> "{...}"] :
         t \in ScoreValues, tech \in ScoreValues, comm \in {0, 80} }

\* the state after createInterviewSession and startInterviewWithQuestions by user_a
DeriveInit ==
    /\ sessions = << ApplyData(NewSession("user_a", "Engineer", FallbackQuestions("Engineer")),
                               StartData) >>
    /\ analytics = {}
    /\ calls = [i \in Slots |-> IdleCall]
    /\ last = Started("clerk_a", 1, FallbackQuestions("Engineer"))
    /\ faults = 0
    /\ started = 0
    /\ prev = None
    /\ page = NoPage

DeriveNext ==
    \/ \E i \in Slots : CompleteCall(i, "clerk_a", 1, <<LongText, <<>>>>, TRUE)
    \/ \E i \in Slots : H_upsert(i, TRUE)
    \/ \E i \in Slots : H_settle(i)
    \/ \E i \in Slots : H_timeout(i)
    \/ \E i \in Slots : H_timeoutWrite(i, TRUE)
    \/ \E i \in Slots : H_reread(i, TRUE)
    \/ \E i \in Slots : Release(i)
    \/ \E i \in Slots : G_begin(i, "ok")
    \/ \E i \in Slots, out \in ScoredOutputs : G_model(i, out, TRUE)
    \/ \E i \in Slots : G_raw(i, TRUE)

DeriveSpec == DeriveInit /\ [][DeriveNext]_vars

\* C13: while the deriver's update of a parsed document with totalScore and
\* category scores in 0..100 is the last write of the session, overallScore is
\* the document's totalScore and technicalScore, communicationScore and
\* confidenceScore are the scores of the categories of those names.
InRange(x) == \A v \in x : v \in 0..100

DocInRange(doc) ==
    /\ InRange(doc.totalScore)
    /\ \A cats \in doc.categoryScores : \A k \in DOMAIN cats : InRange(cats[k].score)

C13_ScoresOfDocument ==
    \A i \in Slots :
        LET c == calls[i]
        IN  (/\ c.out.kind = "json" /\ Alone(c)
             /\ c.log # <<>> /\ c.log[Len(c.log)] = "derived"
             /\ \A doc \in c.out.doc : DocInRange(doc))
               => \A doc \in c.out.doc :
                     Scores(Row(c)) = << doc.totalScore,
                                         CategoryScore(doc, "Technical Knowledge"),
                                         CategoryScore(doc, "Communication Skills"),
                                         CategoryScore(doc, "Confidence and Clarity") >>

\* C14: every persisted score is absent or an integer in 0..100.
C14_ScoresInRange ==
    \A sid \in DOMAIN sessions :
        \A k \in 1..4 : InRange(Scores(sessions[sid])[k])

\* ------------------------------------------------- creation and start
\* createInterviewSession and startInterviewWithQuestions over everything the
\* question model may return, and roles with and without a special character.
LifecycleRoles == {"Engineer", "UI/UX Designer"}

LifecycleNext ==
    \/ \E caller \in Identities, role \in LifecycleRoles, out \in QuestionOutputs,
          ok \in Outcomes : Create(caller, role, out, ok)
    \/ \E caller \in Identities, sid \in OfferedIds, ok \in Outcomes, okCatch \in Outcomes :
          Start(caller, sid, ok, okCatch)

LifecycleSpec == Init /\ [][LifecycleNext]_vars

Created == last.op = "create" /\ last.error = ""

\* C15: a session just created after the question model threw, returned text
\* that is not JSON, or returned JSON that is not an array, holds the fallback
\* list of 8 questions with the role in the second one.
C15_FallbackQuestions ==
    (Created /\ \E g \in last.generated : ~(g.kind = "json" /\ g.isArray))
       => /\ sessions[last.sid].questions = FallbackQuestions(sessions[last.sid].role)
          /\ Len(sessions[last.sid].questions) = 8

\* C16: the question list of every session is non-empty and none of its
\* questions contains / or *.  The questions of the model that contain one of
\* the two characters are listed.
SpecialQuestions ==
    {"What is CI/CD?", FallbackQuestions("UI/UX Designer")[2]}

C16_QuestionsClean ==
    \A sid \in DOMAIN sessions :
        /\ sessions[sid].questions # <<>>
        /\ \A k \in DOMAIN sessions[sid].questions :
              sessions[sid].questions[k] \notin SpecialQuestions

\* C17: a complete call for an id that matches no session throws "Session not
\* found" to its caller; the analytics upsert is not attempted, the deriver is
\* not started, and no step of the call changes the session or analytics
\* tables while no session has that id.
Unmatched(c) == InFlight(c) /\ c.before = None /\ "find" \notin c.failed

C17_CompleteNotFound ==
    /\ [](\A i \in Slots :
            Unmatched(calls[i])
               => /\ calls[i].result = "Session not found"
                  /\ calls[i].hpc \in {"fatal", "done"}
                  /\ calls[i].gpc = "none"
                  /\ calls[i].log = <<>>
                  /\ "upsert" \notin calls[i].failed)
    /\ [][\A i \in Slots :
            (Stepped(i) /\ Unmatched(calls'[i]) /\ ~Exists(calls'[i].sid))
               => (sessions' = sessions /\ analytics' = analytics)]_vars

C17_Witness ==
    \E i \in Slots :
        /\ Unmatched(calls[i]) /\ Returned(calls[i])
        /\ calls[i].result = "Session not found"
        /\ sessions # <<>> /\ ~Exists(calls[i].sid)

\* C18: a create call without an identity ends with "Unauthorized", and one
\* whose identity has no user row with "User not found"; neither persists a
\* session nor calls the question generator.
C18_CreateRejected ==
    [][(last'.op = "create" /\ UserOf(last'.caller) = None)
          => /\ last'.error = (IF last'.caller = NoIdentity THEN "Unauthorized"
                               ELSE "User not found")
             /\ sessions' = sessions
             /\ last'.generated = None]_vars

\* an identity without a user row has been turned away
C18_Witness ==
    /\ last.op = "create"
    /\ last.caller # NoIdentity
    /\ UserOf(last.caller) = None
    /\ last.error = "User not found"
    /\ last.generated = None

\* C19: the session a successful create has just persisted is SCHEDULED,
\* belongs to the caller's user, holds the array the question model returned
\* or else the fallback list, and has no score, no startedAt and no endedAt.
GeneratedLists == {o.value : o \in {x \in QuestionOutputs : x.kind = "json" /\ x.isArray}}

C19_CreatedSession ==
    Created =>
        LET row == sessions[last.sid]
        IN  /\ row.status = "SCHEDULED"
            /\ Some(row.userId) = UserOf(last.caller)
            /\ row.questions \in GeneratedLists \cup {FallbackQuestions(row.role)}
            /\ Scores(row) = <<None, None, None, None>>
            /\ row.startedAt = None
            /\ row.endedAt = None

\* C20: a start call that got past the ownership check and then failed (the
\* question extraction or the status update threw) re-raises the error and,
\* its catch's own update succeeding, leaves the status FAILED; a start call
\* returns normally only when nothing threw, and then the status is
\* IN_PROGRESS.
StartFailures == {"TypeError", "store"}

C20_StartFailure ==
    [][last'.op = "start" =>
          /\ last'.error \in StartFailures =>
                /\ Owns(last'.caller, last'.sid)
                /\ (faults' = faults + (IF last'.error = "store" THEN 1 ELSE 0))
                      => sessions'[last'.sid].status = "FAILED"
          /\ last'.error = "" =>
                /\ ~ExtractionThrows(sessions[last'.sid].questions)
                /\ faults' = faults
                /\ sessions'[last'.sid].status = "IN_PROGRESS"]_vars

\* the question extraction threw on a null element
C20_Witness ==
    /\ last.op = "start"
    /\ last.error = "TypeError"
    /\ Owns(last.caller, last.sid)
    /\ sessions[last.sid].status = "FAILED"

\* C21: a start that returns normally has set the status to IN_PROGRESS and
\* startedAt to the current time; it returns as many questions as are
\* persisted, the k-th being the text of the k-th persisted one, and the system
\* instruction holds the lines "- <question>" of the returned questions in
\* that order, joined by newlines.
RECURSIVE BulletLines(_, _)
BulletLines(questions, k) ==
    IF k > Len(questions) THEN ""
    ELSE "- " \o questions[k] \o (IF k < Len(questions) THEN "\n" ELSE "")
         \o BulletLines(questions, k + 1)

TextOf(q) == IF q = ObjectQuestion THEN ObjectQuestionText ELSE q

C21_StartReturns ==
    (last.op = "start" /\ last.error = "")
       => LET row == sessions[last.sid]
          IN  /\ Owns(last.caller, last.sid)
              /\ row.status = "IN_PROGRESS"
              /\ row.startedAt = Now
              /\ \A r \in last.returned :
                    /\ Len(r.questions) = Len(row.questions)
                    /\ \A k \in DOMAIN row.questions : r.questions[k] = TextOf(row.questions[k])
                    /\ r.instruction = BulletLines(r.questions, 1)
              /\ last.returned # None

\* a list with an object element has been returned as texts
C21_Witness ==
    /\ last.op = "start" /\ last.error = ""
    /\ sessions[last.sid].status = "IN_PROGRESS"
    /\ sessions[last.sid].questions = <<"Question 1", ObjectQuestion>>
    /\ \E r \in last.returned : r.instruction = "- Question 1\n- Why us?"

\* ------------------------------------------------------------ get and list
\* Sessions in the table where the reads are explored.
MaxListed == 3

\* rows in ascending order of id, which is the order of creation (createdAt)
OwnedIds(userId) ==
    SelectSeq([k \in 1..Len(sessions) |-> k], LAMBDA k : sessions[k].userId = userId)

Reverse(seq) == [k \in 1..Len(seq) |-> seq[Len(seq) + 1 - k]]

\* findMany without orderBy desc
FindManyAscending(userId) == OwnedIds(userId)

\* db.interviewSession.findMany({ where: { userId }, orderBy: { createdAt: "desc" } })
FindMany(userId) == Reverse(OwnedIds(userId))

\* db.callAnalytics.findUnique({ where: { sessionId } })
FindAnalytics(sid) == {r \in analytics : r.sessionId = sid}

ReadRejection(caller) ==
    IF caller = NoIdentity THEN "Unauthorized"
    ELSE IF UserOf(caller) = None THEN "User not found"
    ELSE ""

getInterviewSessions(caller) ==
    /\ UNCHANGED <<sessions, analytics, calls, faults, started, prev>>
    /\ IF ReadRejection(caller) # ""
         THEN Tell(Ended("list", caller, 0, ReadRejection(caller)))
         ELSE Tell([Ended("list", caller, 0, "") EXCEPT
                          !.returned = Some([ids |-> FindMany(CHOOSE u \in UserOf(caller) : TRUE)])])

getInterviewSession(caller, sid) ==
    /\ UNCHANGED <<sessions, analytics, calls, faults, started, prev>>
    /\ IF ReadRejection(caller) # ""
         THEN Tell(Ended("get", caller, sid, ReadRejection(caller)))
       ELSE IF ~FindFirst(sid, CHOOSE u \in UserOf(caller) : TRUE)
         THEN Tell(Ended("get", caller, sid, "Interview session not found"))
       ELSE Tell([Ended("get", caller, sid, "") EXCEPT
                        !.returned = Some([session |-> sessions[sid],
                                           analytics |-> FindAnalytics(sid)])])

\* the tables after some creates by user_a and user_b, some of the sessions
\* completed by handleInterviewComplete with an empty transcript
ReadRow(userId, completed) ==
    IF completed
      THEN ApplyData(NewSession(userId, "Engineer", FallbackQuestions("Engineer")), NoTranscriptData)
      ELSE NewSession(userId, "Engineer", FallbackQuestions("Engineer"))

ReadAnalytics(userId, sid) ==
    Upsert({}, sid, [transcript |-> T_NoTranscript, endedAt |-> Now],
           AnalyticsRow(Some(userId), sid, T_NoTranscriptAvailable, None,
                        Metadata(Some(0), None, None)))

ReadInit ==
    /\ \E n \in 0..MaxListed :
          \E owners \in [1..n -> UserIds], done \in [1..n -> BOOLEAN] :
             /\ sessions = [k \in 1..n |-> ReadRow(owners[k], done[k])]
             /\ analytics = UNION {ReadAnalytics(owners[k], k) : k \in {j \in 1..n : done[j]}}
    /\ calls = [i \in Slots |-> IdleCall]
    /\ last = NoCall
    /\ faults = 0
    /\ started = 0
    /\ prev = None
    /\ page = NoPage

ReadNext ==
    \/ \E caller \in Identities : getInterviewSessions(caller)
    \/ \E caller \in Identities, sid \in 1..(MaxListed + 1) : getInterviewSession(caller, sid)

ReadSpec == ReadInit /\ [][ReadNext]_vars

\* C22: get and list change no row; get returns the row of the id only to its
\* owner and fails with "Interview session not found" for anyone else's; list
\* returns exactly the caller's sessions, latest created first.
C22_ReadsScoped ==
    [][last'.op \in {"get", "list"} =>
          /\ sessions' = sessions
          /\ analytics' = analytics
          /\ (last'.op = "get" /\ UserOf(last'.caller) # None) =>
                IF Owns(last'.caller, last'.sid)
                  THEN /\ last'.error = ""
                       /\ \A r \in last'.returned :
                             /\ r.session = sessions[last'.sid]
                             /\ \A a \in r.analytics : a.sessionId = last'.sid
                  ELSE last'.error = "Interview session not found" /\ last'.returned = None
          /\ (last'.op = "list" /\ last'.error = "") =>
                \A r \in last'.returned :
                   /\ \A k \in DOMAIN r.ids : Owns(last'.caller, r.ids[k])
                   /\ \A sid \in DOMAIN sessions :
                         Owns(last'.caller, sid) => \E k \in DOMAIN r.ids : r.ids[k] = sid
                   /\ \A j, k \in DOMAIN r.ids : j < k => r.ids[j] > r.ids[k]
          /\ last'.error = "" => last'.returned # None]_vars

\* a list of two of the caller's sessions, with another user's between them
C22_Witness ==
    /\ last.op = "list" /\ last.error = ""
    /\ \E r \in last.returned : r.ids = <<3, 1>>
    /\ Len(sessions) = 3
    /\ ~Owns(last.caller, 2)

\* ------------------------------------------------- overlapping completions
\* Two handleInterviewComplete invocations in flight at once on a session that
\* has been created and started, every store operation succeeding.
OverlapSlots == 1..2

OverlapInit ==
    /\ sessions = << ApplyData(NewSession("user_a", "Engineer", FallbackQuestions("Engineer")),
                               StartData) >>
    /\ analytics = {}
    /\ calls = [i \in OverlapSlots |-> IdleCall]
    /\ last = Started("clerk_a", 1, FallbackQuestions("Engineer"))
    /\ faults = 0
    /\ started = 0
    /\ prev = None
    /\ page = NoPage

OverlapNext ==
    \/ \E i \in OverlapSlots, input \in CompleteInputs :
          CompleteCall(i, "clerk_a", 1, input, TRUE)
    \/ \E i \in OverlapSlots : H_upsert(i, TRUE)
    \/ \E i \in OverlapSlots : H_settle(i)
    \/ \E i \in OverlapSlots : H_timeout(i)
    \/ \E i \in OverlapSlots : H_timeoutWrite(i, TRUE)
    \/ \E i \in OverlapSlots : H_reread(i, TRUE)
    \/ \E i \in OverlapSlots : Release(i)
    \/ \E i \in OverlapSlots : G_begin(i, "ok")
    \/ \E i \in OverlapSlots : G_short(i, TRUE)
    \/ \E i \in OverlapSlots, out \in FeedbackOutputs : G_model(i, out, TRUE)
    \/ \E i \in OverlapSlots : G_errWrite(i, TRUE)
    \/ \E i \in OverlapSlots : G_raw(i, TRUE)

OverlapSpec == OverlapInit /\ [][OverlapNext]_vars

\* C23: the analytics table never holds two rows of one session id, and each
\* upsert of a complete invocation leaves in that row what it wrote: the
\* handler's its transcript and message count, the deriver's first the
\* formatted transcript, the deriver's last the raw model output.
AnalyticsOf(rows, sid) == {r \in rows : r.sessionId = sid}

C23_OneAnalyticsRow ==
    /\ [](\A r1, r2 \in analytics : r1.sessionId = r2.sessionId => r1 = r2)
    /\ [][\A i \in DOMAIN calls :
            LET c == calls[i]
                d == calls'[i]
                ft == FormattedTranscript(c.transcript, c.messages)
                rows == AnalyticsOf(analytics', c.sid)
            IN  /\ (c.hpc = "upsert" /\ d.hpc = "race" /\ d.failed = c.failed)
                      => /\ rows # {}
                         /\ \A r \in rows :
                               /\ r.transcript = Or(c.transcript, T_NoTranscriptAvailable)
                               /\ r.metadata = Metadata(Some(Len(c.messages)), None, None)
                /\ (c.gpc = "begin" /\ d.gpc \in {"short", "model"} /\ d.failed = c.failed)
                      => /\ rows # {}
                         /\ \A r \in rows : r.transcript = Or(ft, T_NoTranscript)
                /\ (c.gpc = "raw" /\ d.gpc = "done" /\ d.failed = c.failed)
                      => /\ rows # {}
                         /\ \A r \in rows :
                               r.metadata = Metadata(None, None, Some(c.out.cleaned))]_vars

\* two invocations have upserted for the same session while both in flight
C23_Witness ==
    /\ \A i \in DOMAIN calls : calls[i].gpc \in {"short", "model", "raw", "done"} /\ calls[i].sid = 1
    /\ Len(calls) = 2
    /\ calls[1].hpc # "done" /\ calls[2].hpc # "done"
    /\ Cardinality(analytics) = 1

\* C24: whatever throws inside the deriver (the model call or a store
\* operation), the deriver is on a path that resolves, and it resolves with a
\* feedback document or with null; the handler enters catch (feedbackErr)
\* only when the timer has fired.
DeriverPath == {"none", "begin", "short", "model", "errWrite", "raw", "fatal", "done"}

C24_DeriverNeverRejects ==
    \A i \in Slots :
        LET c == calls[i]
        IN  /\ c.gpc \in DeriverPath
            /\ c.gpc = "fatal" => \E ok \in Outcomes : ENABLED G_fatal(i, ok)
            /\ c.gpc = "done" =>
                  \/ c.gres = None
                  \/ \E doc \in c.gres : doc.totalScore # None /\ doc.categoryScores # None
            /\ c.hpc = "timeoutWrite" => c.timedOut
            /\ (\E k \in DOMAIN c.log : c.log[k] = "timeout") => c.timedOut

\* a store write of the deriver threw, the deriver resolved with null and
\* complete returned without the timer firing
C24_Witness ==
    \E i \in Slots :
        LET c == calls[i]
        IN  /\ "g.update" \in c.failed
            /\ c.gpc = "done" /\ c.gres = None
            /\ Returned(c) /\ c.result = "ok" /\ ~c.timedOut
            /\ c.log = <<"deriverFatal">>

\* C25: a complete call that returns after a degraded completion (the
\* transcript was too short, the model call threw, or the timer fired)
\* returns feedback = null; otherwise it returns the parsed document.  No
\* store operation has thrown and no other call has written the session.
C25_DegradedReturnsNull ==
    \A i \in Slots :
        LET c == calls[i]
            degraded == \/ c.timedOut
                        \/ \E k \in DOMAIN c.log : c.log[k] \in {"short", "modelError"}
        IN  Returned(c) /\ c.result = "ok" /\ Nominal(c) /\ Alone(c)
            => IF degraded THEN c.feedback = None
               ELSE c.feedback = Some(ParsedFeedback(c.out))

\* ------------------------------------------- parsing of the model's text
\* The deriver on texts JSON.parse rejects and on documents that lack parts:
\* handleInterviewComplete is followed from a session that has been created
\* and started.
Unparsed(cleaned, hundred, bare) ==
    [kind |-> "invalid", doc |-> None, hundred |-> hundred, bare |-> bare,
     cleaned |-> cleaned]

\* texts without a {...} span; hundred is the match of /(\d{1,3})\s*\/\s*100/
\* and bare the match of /(\b\d{1,3}\b)/ in each
UnparsedOutputs ==
    { Unparsed("Sorry, I cannot help.", None, None),
      Unparsed("Overall 85/100", Some(85), Some(85)),
      Unparsed("7 of 10 answers were right: 70/100", Some(70), Some(7)),
      Unparsed("Score: 0/100", Some(0), Some(0)),
      Unparsed("About 40 points", None, Some(40)),
      Unparsed("Total 250", None, Some(250)) }

OneCategory == << [name |-> "Technical Knowledge", score |-> Some(90), comment |-> "c"] >>

\* parseable documents that lack a part
PartialOutputs ==
    { [kind |-> "json", doc |-> Some(d), hundred |-> None, bare |-> None, cleaned |-> "{...}"] :
        d \in { Doc(Some(85), None, Some(<<"Clear answers">>), Some(<<"More depth">>), Some("Solid.")),
                Doc(None, Some(<<>>), None, None, None),
                Doc(Some(85), Some(OneCategory), None, Some(<<"More depth">>), Some("Solid.")) } }

ParseNext ==
    \/ \E i \in Slots : CompleteCall(i, "clerk_a", 1, <<LongText, <<>>>>, TRUE)
    \/ \E i \in Slots : H_upsert(i, TRUE)
    \/ \E i \in Slots : H_settle(i)
    \/ \E i \in Slots : H_timeout(i)
    \/ \E i \in Slots : H_timeoutWrite(i, TRUE)
    \/ \E i \in Slots : H_reread(i, TRUE)
    \/ \E i \in Slots : Release(i)
    \/ \E i \in Slots : G_begin(i, "ok")
    \/ \E i \in Slots, out \in UnparsedOutputs \cup PartialOutputs : G_model(i, out, TRUE)
    \/ \E i \in Slots : G_raw(i, TRUE)

ParseSpec == DeriveInit /\ [][ParseNext]_vars

\* the number the heuristics recover from a text, clamped to 0..100, or 75
Recovered(out) ==
    IF out.hundred # None THEN Clamp(CHOOSE v \in out.hundred : TRUE)
    ELSE IF out.bare # None THEN Clamp(CHOOSE v \in out.bare : TRUE)
    ELSE 75

\* C27: when JSON.parse rejects the model's text, the deriver resolves with a
\* document whose five category scores are 75 and whose totalScore is the
\* number recovered from "NN/100" or else the first bare number of one to three
\* digits, clamped to 0..100, or 75 when there is none; while the deriver's
\* update is the last write, overallScore is that totalScore and
\* technicalScore, communicationScore and confidenceScore are 75.
C27_UnparsedScores ==
    \A i \in Slots :
        LET c == calls[i]
        IN  c.out.kind = "invalid" /\ Alone(c)
            => /\ \A doc \in c.gres :
                    /\ doc.totalScore = Some(Recovered(c.out))
                    /\ doc.categoryScores = Some(UniformCategories(75, "Auto-generated fallback"))
               /\ (c.log # <<>> /\ c.log[Len(c.log)] = "derived")
                    => Scores(Row(c)) = << Some(Recovered(c.out)), Some(75), Some(75), Some(75) >>

\* C28: a parsed document, after the structure repair, has a totalScore, a
\* categoryScores list of exactly the five named entries, and strengths and
\* areasForImprovement lists; a category among Technical Knowledge,
\* Communication Skills and Confidence and Clarity that the document lacks is
\* persisted as 50.
C28_StructureRepaired ==
    \A i \in Slots :
        LET c == calls[i]
        IN  c.out.kind = "json" /\ Alone(c)
            => /\ \A doc \in c.gres :
                    /\ doc.totalScore # None
                    /\ \E cats \in doc.categoryScores :
                          /\ Len(cats) = Len(CategoryNames)
                          /\ \A k \in DOMAIN cats : cats[k].name = CategoryNames[k]
                    /\ doc.strengths # None
                    /\ doc.areasForImprovement # None
               /\ (c.log # <<>> /\ c.log[Len(c.log)] = "derived")
                    => \A doc \in c.out.doc :
                          LET fixed == EnsureStructure(doc)
                          IN  /\ CategoryScore(fixed, "Technical Knowledge") = None
                                   => Row(c).technicalScore = Some(MissingCategoryScore)
                              /\ CategoryScore(fixed, "Communication Skills") = None
                                   => Row(c).communicationScore = Some(MissingCategoryScore)
                              /\ CategoryScore(fixed, "Confidence and Clarity") = None
                                   => Row(c).confidenceScore = Some(MissingCategoryScore)

\* the session writes of a complete invocation that set status COMPLETED
CompletedWrites == {"timeout", "short", "derived", "modelError", "deriverFatal"}

\* C29: once an invocation of complete has written status COMPLETED, no later
\* write of that invocation sets FAILED; in particular a failing final
\* re-read does not turn COMPLETED into FAILED.
C29_NoFailedAfterCompleted ==
    \A i \in Slots :
        LET c == calls[i]
        IN  \A j, k \in DOMAIN c.log :
                j < k /\ c.log[j] \in CompletedWrites => c.log[k] # "failed"

\* ------------------------------------------ the InterviewSession component
\* The page of one interview: init() of the effect, the handlers it attaches
\* to the voice SDK, the end-call button, and the complete call the call-end
\* handler makes through finishInterview.  The page record holds
\*   ipc       where init() is: unmounted, init, starting, ready, failed
\*   sdk       the SDK's call: none (no instance), idle (instance, no call),
\*             starting, live, stopping, ended, errored
\*   messages, transcript   the component's state
\*   seen      the transcript and messages of the render whose effect ran
\*             init(): what the handlers attached by init() read
\*   sent      the arguments finishInterview was called with
MaxMessages == 2

ServerQuiet == UNCHANGED <<sessions, analytics, calls, last, faults, started, prev>>

\* msg?.text || msg?.content || msg?.message?.text || msg?.data || ""
\* (no message of SdkMessages has message.text or data)
MaybeText(m) == IF m.isString THEN <<>> ELSE Or(m.text, m.content)

\* prev ? prev + "\n" + maybeText : String(maybeText)
AppendText(soFar, text) == IF soFar # <<>> THEN soFar \o <<"\n">> \o text ELSE text

\* message events of the SDK: one with text and one without
SdkMessages == {ContentMsg, EmptyMsg}

\* why init() gives up before vapi.start: no constructor, no token, no
\* assistantConfig (the instance exists by then)
InitFailures == {"noSdk", "noToken", "noConfig"}

\* the effect runs for the render that mounted the component
Mount ==
    /\ page.ipc = "unmounted"
    /\ page' = [page EXCEPT !.ipc = "init",
                            !.seen = Some(<<page.transcript, page.messages>>)]
    /\ ServerQuiet

InitFailed(how) ==
    /\ page.ipc = "init"
    /\ page' = [page EXCEPT !.ipc = "failed", !.callStatus = "error",
                            !.sdk = IF how = "noConfig" THEN "idle" ELSE "none"]
    /\ ServerQuiet

\* new VapiCtor(token), the handlers attached, vapi.start(assistantConfig) awaited
InitStart ==
    /\ page.ipc = "init"
    /\ page' = [page EXCEPT !.ipc = "starting", !.sdk = "starting"]
    /\ ServerQuiet

\* vapi.start settles; a rejection is caught by init()'s catch
StartSettled(ok) ==
    /\ page.ipc = "starting"
    /\ IF ok
         THEN page' = [page EXCEPT !.ipc = "ready"]
         ELSE /\ page.sdk = "starting"
              /\ page' = [page EXCEPT !.ipc = "failed", !.callStatus = "error",
                                      !.sdk = "idle"]
    /\ ServerQuiet

\* vapi.on("call-start")
CallStart ==
    /\ page.sdk = "starting"
    /\ page' = [page EXCEPT !.sdk = "live", !.callStatus = "connected",
                            !.isCallActive = TRUE]
    /\ ServerQuiet

\* vapi.on("message")
Message(msg) ==
    /\ page.sdk = "live"
    /\ Len(page.messages) < MaxMessages
    /\ page' = [page EXCEPT
                  !.messages = Append(page.messages, msg),
                  !.transcript = IF MaybeText(msg) # <<>>
                                   THEN AppendText(page.transcript, MaybeText(msg))
                                   ELSE page.transcript]
    /\ ServerQuiet

\* vapi.on("call-end"), up to the call of finishInterview
CallEnd ==
    /\ page.sdk \in {"live", "stopping"}
    /\ page' = [page EXCEPT
                  !.sdk = "ended", !.callStatus = "ended", !.isCallActive = FALSE,
                  !.finish = "calling",
                  !.sent = {<<Or(s[1], <<>>), s[2]>> : s \in page.seen}]
    /\ ServerQuiet

\* vapi.on("error"): the SDK may go on with the call or be done with it
\* without a call-end event
ErrorEvent(over) ==
    /\ page.sdk \in {"starting", "live"}
    /\ page' = [page EXCEPT !.callStatus = "error", !.isCallActive = FALSE,
                            !.sdk = IF over THEN "errored" ELSE page.sdk]
    /\ ServerQuiet

\* the end-call button: vapiRef.current?.stop?.() ends a call that is there
endCall ==
    /\ page.ipc # "unmounted"
    /\ page.callStatus # "ended"
    /\ page' = [page EXCEPT
                  !.callStatus = "ended", !.isCallActive = FALSE, !.pressed = TRUE,
                  !.sdk = IF page.sdk \in {"starting", "live"} THEN "stopping"
                          ELSE page.sdk]
    /\ ServerQuiet

\* finishInterview(session.id, transcript || "", messages || []) reaches the server
finishInterview ==
    /\ page.finish = "calling"
    /\ started = 0
    /\ \E args \in page.sent : CompleteCall(1, "clerk_a", 1, args, TRUE)

\* the await of finishInterview settles: onComplete
FinishSettled ==
    /\ page.finish = "calling"
    /\ calls[1].hpc = "done"
    /\ page' = [page EXCEPT !.finish = IF calls[1].result = "ok" THEN "returned"
                                       ELSE "threw"]
    /\ ServerQuiet

\* the state after createInterviewSession and startInterviewWithQuestions by
\* user_a, the component not yet mounted
ClientInit == DeriveInit

ClientNext ==
    \/ Mount
    \/ \E how \in InitFailures : InitFailed(how)
    \/ InitStart
    \/ \E ok \in BOOLEAN : StartSettled(ok)
    \/ CallStart
    \/ \E msg \in SdkMessages : Message(msg)
    \/ CallEnd
    \/ \E over \in BOOLEAN : ErrorEvent(over)
    \/ endCall
    \/ finishInterview
    \/ FinishSettled
    \/ H_upsert(1, TRUE)
    \/ H_settle(1)
    \/ H_timeout(1)
    \/ H_timeoutWrite(1, TRUE)
    \/ H_reread(1, TRUE)
    \/ G_begin(1, "ok")
    \/ G_short(1, TRUE)

ClientSpec == ClientInit /\ [][ClientNext]_vars

\* init() runs to its end, a call that was told to stop ends, the request of
\* finishInterview reaches the server, and the server's handler and the
\* deriver's store writes run.  Nothing obliges the SDK to start or end a
\* live call, or the user to press the button.
ClientFairSpec ==
    /\ ClientSpec
    /\ WF_vars(Mount)
    /\ WF_vars(InitStart \/ \E how \in InitFailures : InitFailed(how))
    /\ WF_vars(\E ok \in BOOLEAN : StartSettled(ok))
    /\ WF_vars(page.sdk = "stopping" /\ CallEnd)
    /\ WF_vars(finishInterview)
    /\ WF_vars(FinishSettled)
    /\ WF_vars(Handler(1))
    /\ WF_vars(G_begin(1, "ok") \/ G_short(1, TRUE))

\* message events with text that have arrived
WithText(ms) == SelectSeq(ms, LAMBDA m : MaybeText(m) # <<>>)

\* C26: the call-end handler passes to complete what the message events of
\* the call have accumulated: when at least one message event with text has
\* arrived before call-end, the messages argument has an entry for each
\* message event and the transcript argument is not empty.
C26_SendsAccumulated ==
    \A args \in page.sent :
        WithText(page.messages) # <<>>
          => /\ Len(args[2]) = Len(page.messages)
             /\ args[1] # <<>>

\* the voice call of the page is over: call-end or a final error came, the
\* initialisation failed, or the user pressed end-call
CallOver ==
    \/ page.sdk \in {"ended", "errored"}
    \/ page.ipc = "failed"
    \/ page.pressed

\* C30: once the voice call of a session in IN_PROGRESS is over, by call-end,
\* by the SDK's error event, by a failed initialisation or by the end-call
\* button, the session eventually is COMPLETED or FAILED.
C30_EventuallyTerminal ==
    [](CallOver => <>(sessions[1].status \in Terminal))

====
